---- MODULE Spec2Model ----
(***************************************************************************)
(* The menu catalog of the chef app: the App component's state             *)
(* (currentScreen, menuItems), its store handlers addMenuItem and          *)
(* deleteMenuItem, and the screens' handlers that call them.               *)
(*                                                                         *)
(* JavaScript arrays are objects with identity.  `heap' maps the           *)
(* references of the arrays that are still reachable to their contents,    *)
(* and `menuItems' is the reference the state hook currently holds.  A     *)
(* closure created by a render of App (deleteMenuItem handed to an alert   *)
(* button) holds the reference that render saw.  Reference 1 is the module *)
(* constant INITIAL_DISHES.                                                *)
(*                                                                         *)
(* A text is a sequence of tokens; " " is the whitespace token.            *)
(* An optional value is <<>> (undefined) or <<v>>.                         *)
(***************************************************************************)
EXTENDS Integers, Sequences, FiniteSets, Bags, TLC

\* ------------------------------------------------------------------ bounds
MaxCreates == 2    \* calls of addMenuItem in one run
MaxAlerts == 2     \* alert dialogs requested and not yet dismissed
ClockStart == 9    \* Date.now() when the app starts
MaxClock == 10     \* the clock stops advancing here
MaxItems == 3      \* length of an array handed to a view function

\* ----------------------------------------------------------------- helpers
Last(s) == s[Len(s)]

Range(s) == {s[k] : k \in 1..Len(s)}

undefined == <<>>

Digits == <<"0", "1", "2", "3", "4", "5", "6", "7", "8", "9">>

\* Number.prototype.toString of a non-negative integer: its decimal digits.
RECURSIVE NumToString(_)
NumToString(n) ==
  IF n < 10 THEN <<Digits[n + 1]>>
  ELSE NumToString(n \div 10) \o <<Digits[(n % 10) + 1]>>

\* String.prototype.trim: leading and trailing whitespace removed.
RECURSIVE TrimLeft(_)
TrimLeft(s) ==
  IF s # <<>> /\ Head(s) = " " THEN TrimLeft(Tail(s)) ELSE s

RECURSIVE TrimRight(_)
TrimRight(s) ==
  IF s # <<>> /\ Last(s) = " " THEN TrimRight(SubSeq(s, 1, Len(s) - 1)) ELSE s

Trim(s) == TrimRight(TrimLeft(s))

DigitValue(c) == CHOOSE d \in 0..9 : Digits[d + 1] = c

IsDigit(c) == \E d \in 0..9 : Digits[d + 1] = c

\* The longest prefix of s made of digits, as a number; acc is the value so far.
RECURSIVE DigitPrefix(_, _)
DigitPrefix(s, acc) ==
  IF s # <<>> /\ IsDigit(Head(s))
  THEN DigitPrefix(Tail(s), (acc * 10) + DigitValue(Head(s)))
  ELSE acc

\* parseFloat on texts without a decimal point or exponent: leading whitespace
\* skipped, an optional sign, then the longest run of digits; NaN without one.
ParseFloat(s) ==
  LET t == TrimLeft(s)
      neg == t # <<>> /\ Head(t) = "-"
      u == IF t # <<>> /\ Head(t) \in {"-", "+"} THEN Tail(t) ELSE t
  IN IF u # <<>> /\ IsDigit(Head(u))
     THEN [nan |-> FALSE, val |-> IF neg THEN 0 - DigitPrefix(u, 0) ELSE DigitPrefix(u, 0)]
     ELSE [nan |-> TRUE, val |-> 0]

\* ------------------------------------------------------------- sample data
INITIAL_DISHES ==
  << [id |-> <<"2">>, name |-> <<"Full English Breakfast">>,
      description |-> <<"Classic Full English breakfast">>,
      course |-> "Breakfast", price |-> 85, image |-> << <<"breakfast.jpg">> >>],
     [id |-> <<"1">>, name |-> <<"Caesar Salad">>,
      description |-> <<"Fresh romaine lettuce">>,
      course |-> "Lunch", price |-> 75, image |-> << <<"salad.jpg">> >>],
     [id |-> <<"3">>, name |-> <<"Beef Steak">>,
      description |-> <<"Prime ribeye steak">>,
      course |-> "Dinner", price |-> 225, image |-> << <<"steak.jpg">> >>] >>

Screen == {"splash", "home", "addDish", "filter"}

AddDish_COURSES == <<"Breakfast", "Lunch", "Dinner">>

Filter_COURSES == <<"All", "Breakfast", "Lunch", "Dinner">>

\* What the user may have typed into the add-dish form when pressing Add Dish.
FormInputs ==
  { [dishName |-> <<"Soup">>, description |-> <<"Tomato", " ", "soup">>,
     selectedCourse |-> "Lunch", price |-> <<"4", "5">>, imageUrl |-> <<" ">>],
    [dishName |-> <<" ", "Pap">>, description |-> <<"Maize">>,
     selectedCourse |-> "Dinner", price |-> <<" ", "3", "0", "x">>,
     imageUrl |-> <<" ", "pap.jpg", " ">>],
    [dishName |-> <<" ">>, description |-> <<"Maize">>,
     selectedCourse |-> "Breakfast", price |-> <<"4", "5">>, imageUrl |-> <<>>],
    [dishName |-> <<"Soup">>, description |-> <<>>,
     selectedCourse |-> "Lunch", price |-> <<"4", "5">>, imageUrl |-> <<>>],
    [dishName |-> <<"Soup">>, description |-> <<"Maize">>,
     selectedCourse |-> "Lunch", price |-> <<"x">>, imageUrl |-> <<>>],
    [dishName |-> <<"Soup">>, description |-> <<"Maize">>,
     selectedCourse |-> "Lunch", price |-> <<"0">>, imageUrl |-> <<>>],
    [dishName |-> <<"Soup">>, description |-> <<"Maize">>,
     selectedCourse |-> "Dinner", price |-> <<"-", "5">>, imageUrl |-> <<>>] }

\* ------------------------------------------------------------------- state
VARIABLES
  currentScreen,   \* App: useState<Screen>('splash')
  heap,            \* reference -> contents, for the arrays still reachable
  menuItems,       \* App: useState(INITIAL_DISHES), the reference held now
  selectedCourse,  \* FilterScreen: useState('All')
  alerts,          \* the dialogs requested by Alert.alert and not yet dismissed (a bag)
  presented,       \* TRUE once the requested dialogs are on screen (modal)
  now,             \* what Date.now() returns
  last,            \* history: the call the latest handler run made, if it made one
  issued           \* history: the ids addMenuItem has assigned, in order

vars == <<currentScreen, heap, menuItems, selectedCourse, alerts, presented, now, last, issued>>

\* The array the state hook holds now.
Items == heap[menuItems]

HasId(s, id) == \E k \in 1..Len(s) : s[k].id = id

\* ------------------------------------------------------------------ memory
\* A reference no reachable array uses.
NewRef(h) == CHOOSE r \in 1..(Cardinality(DOMAIN h) + 1) :
               /\ r \notin DOMAIN h
               /\ \A q \in 1..(r - 1) : q \in DOMAIN h

\* The arrays still reachable: INITIAL_DISHES, the state hook's array and the
\* arrays the closures behind the dialogs' buttons hold.
Collect(h, m, a) ==
  [r \in {x \in DOMAIN h : x = 1 \/ x = m \/ \E d \in BagToSet(a) : d.closure = x} |-> h[r]]

\* ------------------------------------------------------------------- store
\* Variants of addMenuItem with a slip in them, for checking that the claims
\* about create depend on what addMenuItem does.
\* [newItem, ...menuItems]
addMenuItem_prepend(h, items, name, description, course, price, imageUrl, t) ==
  LET newItem == [id |-> NumToString(t), name |-> name, description |-> description,
                  course |-> course, price |-> price, image |-> imageUrl]
  IN [heap |-> (NewRef(h) :> (<<newItem>> \o h[items])) @@ h,
      menuItems |-> NewRef(h),
      ret |-> undefined]

\* setMenuItems([newItem])
addMenuItem_replace(h, items, name, description, course, price, imageUrl, t) ==
  LET newItem == [id |-> NumToString(t), name |-> name, description |-> description,
                  course |-> course, price |-> price, image |-> imageUrl]
  IN [heap |-> (NewRef(h) :> <<newItem>>) @@ h,
      menuItems |-> NewRef(h),
      ret |-> undefined]

\* the image left out of newItem
addMenuItem_dropsImage(h, items, name, description, course, price, imageUrl, t) ==
  LET newItem == [id |-> NumToString(t), name |-> name, description |-> description,
                  course |-> course, price |-> price, image |-> undefined]
  IN [heap |-> (NewRef(h) :> Append(h[items], newItem)) @@ h,
      menuItems |-> NewRef(h),
      ret |-> undefined]

\* menuItems.push(newItem); setMenuItems(menuItems)
addMenuItem_inPlace(h, items, name, description, course, price, imageUrl, t) ==
  LET newItem == [id |-> NumToString(t), name |-> name, description |-> description,
                  course |-> course, price |-> price, image |-> imageUrl]
  IN [heap |-> [h EXCEPT ![items] = Append(h[items], newItem)],
      menuItems |-> items,
      ret |-> undefined]

\* addMenuItem as created by a render that saw the array `items' (a reference),
\* called at time t.  Builds a new array; returns nothing.
addMenuItem(h, items, name, description, course, price, imageUrl, t) ==
  LET newItem == [id |-> NumToString(t), name |-> name, description |-> description,
                  course |-> course, price |-> price, image |-> imageUrl]
  IN [heap |-> (NewRef(h) :> Append(h[items], newItem)) @@ h,
      menuItems |-> NewRef(h),
      ret |-> undefined]

\* item.id === id in place of item.id !== id
RECURSIVE FilterOutId_keepsMatch(_, _)
FilterOutId_keepsMatch(s, id) ==
  IF s = <<>> THEN <<>>
  ELSE IF Head(s).id = id THEN <<Head(s)>> \o FilterOutId_keepsMatch(Tail(s), id)
  ELSE FilterOutId_keepsMatch(Tail(s), id)

\* Array.prototype.filter with the predicate item.id !== id: a new array.
RECURSIVE FilterOutId(_, _)
FilterOutId(s, id) ==
  IF s = <<>> THEN <<>>
  ELSE IF Head(s).id # id THEN <<Head(s)>> \o FilterOutId(Tail(s), id)
  ELSE FilterOutId(Tail(s), id)

\* Variants of deleteMenuItem with a slip in them.
\* copy.splice(copy.findIndex(item => item.id === id), 1): the last item goes
\* when no item has the id
deleteMenuItem_splice(h, items, id) ==
  LET s == h[items]
      hit == {k \in 1..Len(s) : s[k].id = id}
      at == IF hit = {} THEN Len(s) ELSE CHOOSE k \in hit : \A q \in hit : k <= q
  IN [heap |-> (NewRef(h) :> (IF s = <<>> THEN s
                               ELSE SubSeq(s, 1, at - 1) \o SubSeq(s, at + 1, Len(s)))) @@ h,
      menuItems |-> NewRef(h),
      ret |-> undefined]

\* the array the state hook is given is the one without the last item when the
\* id is not there any more
deleteMenuItem_dropsLast(h, items, id) ==
  LET s == h[items]
      kept == SelectSeq(s, LAMBDA x : x.id # id)
  IN [heap |-> (NewRef(h) :> (IF Len(kept) = Len(s) /\ s # <<>>
                               THEN SubSeq(s, 1, Len(s) - 1) ELSE kept)) @@ h,
      menuItems |-> NewRef(h),
      ret |-> undefined]

\* returns whether the array got shorter
deleteMenuItem_returnsFlag(h, items, id) ==
  LET kept == SelectSeq(h[items], LAMBDA x : x.id # id)
  IN [heap |-> (NewRef(h) :> kept) @@ h,
      menuItems |-> NewRef(h),
      ret |-> <<Len(kept) < Len(h[items])>>]

\* deleteMenuItem as created by a render that saw the array `items'.
deleteMenuItem(h, items, id) ==
  [heap |-> (NewRef(h) :> FilterOutId(h[items], id)) @@ h,
   menuItems |-> NewRef(h),
   ret |-> undefined]

\* ------------------------------------------------------------ view helpers
\* FilterScreen.filterMenuItems
\* Mutant: a matching item is put in front of the ones found so far.
RECURSIVE FilterByCourse_reversed(_, _)
FilterByCourse_reversed(s, c) ==
  IF s = <<>> THEN <<>>
  ELSE IF Head(s).course = c THEN FilterByCourse_reversed(Tail(s), c) \o <<Head(s)>>
  ELSE FilterByCourse_reversed(Tail(s), c)

RECURSIVE FilterByCourse(_, _)
FilterByCourse(s, c) ==
  IF s = <<>> THEN <<>>
  ELSE IF Head(s).course = c THEN <<Head(s)>> \o FilterByCourse(Tail(s), c)
  ELSE FilterByCourse(Tail(s), c)

\* Mutant: 'All' is compared with the items' courses like any other selector.
filterMenuItems_noAll(items, course) ==
  SelectSeq(items, LAMBDA item : item.course = course)

filterMenuItems(items, course) ==
  IF course = "All" THEN items ELSE FilterByCourse(items, course)

\* FilterScreen.countItemsInCourse: the while loop from index i with the
\* count so far.
RECURSIVE CountLoop(_, _, _, _)
CountLoop(items, course, i, count) ==
  IF i > Len(items) THEN count
  ELSE CountLoop(items, course, i + 1,
                 IF items[i].course = course THEN count + 1 ELSE count)

\* Mutant: every item is counted.
countItemsInCourse_countsAll(items, course) == Len(items)

countItemsInCourse(items, course) == CountLoop(items, course, 1, 0)

\* FilterScreen.renderCourseButton: the number on the badge of a course button.
itemCount(items, course) ==
  IF course = "All" THEN Len(items) ELSE countItemsInCourse(items, course)

\* A number that a division produced is kept exact, as a fraction in lowest
\* terms; an integer n is n/1.  Prices here are non-negative integers, for
\* which the sums of the code are exact.
RECURSIVE GCD(_, _)
GCD(a, b) == IF b = 0 THEN a ELSE GCD(b, a % b)

Number(n) == [num |-> n, den |-> 1]

Divide(total, count) ==
  LET g == GCD(total, count)
  IN [num |-> total \div g, den |-> count \div g]

\* HomeScreen.calculateAveragePrice: the for loop from index i with the total
\* and the count so far.
RECURSIVE AverageLoop(_, _, _, _, _)
AverageLoop(items, course, i, total, count) ==
  IF i > Len(items) THEN [total |-> total, count |-> count]
  ELSE IF items[i].course = course
       THEN AverageLoop(items, course, i + 1, total + items[i].price, count + 1)
       ELSE AverageLoop(items, course, i + 1, total, count)

\* Mutant: no test of count; 0 / 0 is NaN, written 0/0 here.
calculateAveragePrice_unguarded(items, course) ==
  LET r == AverageLoop(items, course, 1, 0, 0)
  IN IF r.count = 0 THEN [num |-> 0, den |-> 0] ELSE Divide(r.total, r.count)

\* Mutant: the total of the course is divided by the number of all items.
calculateAveragePrice_allItems(items, course) ==
  LET r == AverageLoop(items, course, 1, 0, 0)
  IN IF r.count > 0 THEN Divide(r.total, Len(items)) ELSE Number(0)

calculateAveragePrice(items, course) ==
  LET r == AverageLoop(items, course, 1, 0, 0)
  IN IF r.count > 0 THEN Divide(r.total, r.count) ELSE Number(0)

\* HomeScreen.getUniqueCourses: the for...in loop from index i with the Set so
\* far; a Set keeps its values in the order they were first added, and
\* Array.from lists them in that order.
RECURSIVE UniqueLoop(_, _, _)
UniqueLoop(items, i, coursesSet) ==
  IF i > Len(items) THEN coursesSet
  ELSE UniqueLoop(items, i + 1,
                  IF items[i].course \in Range(coursesSet) THEN coursesSet
                  ELSE Append(coursesSet, items[i].course))

\* Mutant: an array instead of a Set, so a repeated course is listed again.
getUniqueCourses_keepsDuplicates(items) == [k \in 1..Len(items) |-> items[k].course]

\* Mutant: a newly met course goes to the front.
RECURSIVE UniqueLoop_newestFirst(_, _, _)
UniqueLoop_newestFirst(items, i, coursesSet) ==
  IF i > Len(items) THEN coursesSet
  ELSE UniqueLoop_newestFirst(items, i + 1,
                  IF items[i].course \in Range(coursesSet) THEN coursesSet
                  ELSE <<items[i].course>> \o coursesSet)

getUniqueCourses_newestFirst(items) == UniqueLoop_newestFirst(items, 1, <<>>)

getUniqueCourses(items) == UniqueLoop(items, 1, <<>>)

\* HomeScreen.calculateCourseStats: the while loop from index i with the stats
\* pushed so far.
RECURSIVE StatsLoop(_, _, _, _)
StatsLoop(items, uniqueCourses, i, stats) ==
  IF i > Len(uniqueCourses) THEN stats
  ELSE LET course == uniqueCourses[i]
           average == calculateAveragePrice(items, course)
           count == Len(SelectSeq(items, LAMBDA item : item.course = course))
       IN StatsLoop(items, uniqueCourses, i + 1,
                    Append(stats, [course |-> course, count |-> count, average |-> average]))

\* Mutant: every entry counts all the items.
calculateCourseStats_countsAll(items) ==
  LET stats == StatsLoop(items, getUniqueCourses(items), 1, <<>>)
  IN [k \in 1..Len(stats) |-> [stats[k] EXCEPT !.count = Len(items)]]

calculateCourseStats(items) == StatsLoop(items, getUniqueCourses(items), 1, <<>>)

\* -------------------------------------------------------------------- Init
\* A record of a store call: the operation, the id assigned or passed, the
\* arguments of a create, whether the catalog had an item with the id before
\* the call, whether the handler run before it was a delete with the same id,
\* and what the call returned.  A handler that calls neither store operation
\* leaves NoCall.
NoCall == [op |-> "none", id |-> <<>>, args |-> <<>>,
           found |-> FALSE, again |-> FALSE, ret |-> undefined]

\* Mutant: construction puts the seed in ascending order of id.
Init_sortsSeed ==
  /\ currentScreen = "splash"
  /\ heap = (1 :> <<INITIAL_DISHES[2], INITIAL_DISHES[1], INITIAL_DISHES[3]>>)
  /\ menuItems = 1
  /\ selectedCourse = "All"
  /\ alerts = EmptyBag
  /\ presented = FALSE
  /\ now = ClockStart
  /\ last = NoCall
  /\ issued = <<>>

Init ==
  /\ currentScreen = "splash"
  /\ heap = (1 :> INITIAL_DISHES)
  /\ menuItems = 1
  /\ selectedCourse = "All"
  /\ alerts = EmptyBag
  /\ presented = FALSE
  /\ now = ClockStart
  /\ last = NoCall
  /\ issued = <<>>

\* An alert dialog: its kind, and for a delete confirmation the id and the
\* deleteMenuItem closure (the array reference it saw) behind its Delete button.
Alert(kind, id, closure) == [kind |-> kind, id |-> id, closure |-> closure]

\* Alert.alert returns at once and the native side puts the dialog on screen a
\* moment later; once on screen it is modal.  Until then a further press of a
\* delete button can still arrive (a double tap, two fingers).
Interactive == ~presented

\* Every other control of a screen is used with no dialog requested or shown.
Idle == alerts = EmptyBag

\* ----------------------------------------------------------------- actions
\* The system clock advances.
Tick ==
  /\ now < MaxClock
  /\ now' = now + 1
  /\ UNCHANGED <<currentScreen, heap, menuItems, selectedCourse, alerts, presented, last, issued>>

\* The system clock is set back (Date.now() is wall-clock time, not monotonic).
ClockSetBack ==
  /\ now > ClockStart
  /\ now' = now - 1
  /\ UNCHANGED <<currentScreen, heap, menuItems, selectedCourse, alerts, presented, last, issued>>

\* Mutant: the timer is not cleared when the splash screen unmounts and fires
\* again later (setInterval without the cleanup).
handleSplashFinish_notCleared ==
  /\ currentScreen # "home"
  /\ currentScreen' = "home"
  /\ UNCHANGED <<heap, menuItems, selectedCourse, alerts, presented, now, issued>>
  /\ last' = [NoCall EXCEPT !.op = "onFinish"]

\* SplashScreen's timer fires while the splash screen is mounted: setTimeout
\* fires once, the effect's cleanup clears it on unmount, and App renders
\* SplashScreen only while currentScreen is 'splash'.  The callback is onFinish.
handleSplashFinish ==
  /\ currentScreen = "splash"
  /\ currentScreen' = "home"
  /\ UNCHANGED <<heap, menuItems, selectedCourse, alerts, presented, now, issued>>
  /\ last' = [NoCall EXCEPT !.op = "onFinish"]

navigateToAddDish ==
  /\ currentScreen = "home"
  /\ Idle
  /\ currentScreen' = "addDish"
  /\ UNCHANGED <<heap, menuItems, selectedCourse, alerts, presented, now, issued>>
  /\ last' = NoCall

\* Mutant: the add-dish screen too has a button that opens the filter screen.
navigateToFilter_fromAddDish ==
  /\ currentScreen \in {"home", "addDish"}
  /\ Idle
  /\ currentScreen' = "filter"
  /\ selectedCourse' = "All"
  /\ UNCHANGED <<heap, menuItems, alerts, presented, now, issued>>
  /\ last' = NoCall

\* FilterScreen mounts with selectedCourse 'All'.
navigateToFilter ==
  /\ currentScreen = "home"
  /\ Idle
  /\ currentScreen' = "filter"
  /\ selectedCourse' = "All"
  /\ UNCHANGED <<heap, menuItems, alerts, presented, now, issued>>
  /\ last' = NoCall

\* Cancel on the add-dish screen, Back on the filter screen; the screen left
\* unmounts and its state is gone.
navigateToHome ==
  /\ currentScreen \in {"addDish", "filter"}
  /\ Idle
  /\ currentScreen' = "home"
  /\ selectedCourse' = "All"
  /\ UNCHANGED <<heap, menuItems, alerts, presented, now, issued>>
  /\ last' = NoCall

\* A course button of the filter screen.
setSelectedCourse ==
  /\ currentScreen = "filter"
  /\ Idle
  /\ \E k \in 1..Len(Filter_COURSES) : selectedCourse' = Filter_COURSES[k]
  /\ UNCHANGED <<currentScreen, heap, menuItems, alerts, presented, now, issued>>
  /\ last' = NoCall

\* Mutant: handleAddDish without the check of the price.
handleAddDish_skipsPriceCheck(f) ==
  /\ currentScreen = "addDish"
  /\ Idle
  /\ IF Trim(f.dishName) = <<>>
       \/ Trim(f.description) = <<>>
     THEN /\ alerts' = alerts (+) SetToBag({Alert("error", <<>>, 0)})
          /\ UNCHANGED <<heap, menuItems, issued>>
          /\ last' = NoCall
     ELSE /\ Len(issued) < MaxCreates
          /\ alerts' = alerts (+) SetToBag({Alert("success", <<>>, 0)})
          /\ LET image == IF Trim(f.imageUrl) = <<>> THEN undefined ELSE <<Trim(f.imageUrl)>>
                 r == addMenuItem(heap, menuItems, f.dishName, f.description,
                                  f.selectedCourse, ParseFloat(f.price).val, image, now)
             IN /\ heap' = Collect(r.heap, r.menuItems, alerts')
                /\ menuItems' = r.menuItems
                /\ last' = [op |-> "add", id |-> NumToString(now),
                            args |-> <<f.dishName, f.description, f.selectedCourse,
                                       ParseFloat(f.price).val, image>>,
                            found |-> HasId(Items, NumToString(now)),
                            again |-> FALSE, ret |-> r.ret]
                /\ issued' = Append(issued, NumToString(now))
  /\ UNCHANGED <<currentScreen, selectedCourse, presented, now>>

\* Mutant: handleAddDish passes imageUrl.trim() as it is, without || undefined.
handleAddDish_imageNeverAbsent(f) ==
  /\ currentScreen = "addDish"
  /\ Idle
  /\ IF Trim(f.dishName) = <<>>
       \/ Trim(f.description) = <<>>
       \/ Trim(f.price) = <<>> \/ ParseFloat(f.price).nan \/ ParseFloat(f.price).val <= 0
     THEN /\ alerts' = alerts (+) SetToBag({Alert("error", <<>>, 0)})
          /\ UNCHANGED <<heap, menuItems, issued>>
          /\ last' = NoCall
     ELSE /\ Len(issued) < MaxCreates
          /\ alerts' = alerts (+) SetToBag({Alert("success", <<>>, 0)})
          /\ LET image == <<Trim(f.imageUrl)>>
                 r == addMenuItem(heap, menuItems, f.dishName, f.description,
                                  f.selectedCourse, ParseFloat(f.price).val, image, now)
             IN /\ heap' = Collect(r.heap, r.menuItems, alerts')
                /\ menuItems' = r.menuItems
                /\ last' = [op |-> "add", id |-> NumToString(now),
                            args |-> <<f.dishName, f.description, f.selectedCourse,
                                       ParseFloat(f.price).val, image>>,
                            found |-> HasId(Items, NumToString(now)),
                            again |-> FALSE, ret |-> r.ret]
                /\ issued' = Append(issued, NumToString(now))
  /\ UNCHANGED <<currentScreen, selectedCourse, presented, now>>

\* AddDishScreen.handleAddDish with the form holding f.  The form mounts empty
\* and is emptied after every add, so a press that passes validation follows
\* typing, which needs a screen with no dialog requested or shown.
handleAddDish(f) ==
  /\ currentScreen = "addDish"
  /\ Idle
  /\ IF Trim(f.dishName) = <<>>
       \/ Trim(f.description) = <<>>
       \/ Trim(f.price) = <<>> \/ ParseFloat(f.price).nan \/ ParseFloat(f.price).val <= 0
     THEN /\ alerts' = alerts (+) SetToBag({Alert("error", <<>>, 0)})
          /\ UNCHANGED <<heap, menuItems, issued>>
          /\ last' = NoCall
     ELSE /\ Len(issued) < MaxCreates
          /\ alerts' = alerts (+) SetToBag({Alert("success", <<>>, 0)})
          /\ LET image == IF Trim(f.imageUrl) = <<>> THEN undefined ELSE <<Trim(f.imageUrl)>>
                 r == addMenuItem(heap, menuItems, f.dishName, f.description,
                                  f.selectedCourse, ParseFloat(f.price).val, image, now)
             IN /\ heap' = Collect(r.heap, r.menuItems, alerts')
                /\ menuItems' = r.menuItems
                /\ last' = [op |-> "add", id |-> NumToString(now),
                            args |-> <<f.dishName, f.description, f.selectedCourse,
                                       ParseFloat(f.price).val, image>>,
                            found |-> HasId(Items, NumToString(now)),
                            again |-> FALSE, ret |-> r.ret]
                /\ issued' = Append(issued, NumToString(now))
  /\ UNCHANGED <<currentScreen, selectedCourse, presented, now>>

\* Mutant: the delete button calls onDeleteItem at once, with no dialog.
HomeScreen_handleDelete_noConfirm ==
  /\ currentScreen = "home"
  /\ Interactive
  /\ \E k \in 1..Len(Items) :
       LET r == deleteMenuItem(heap, menuItems, Items[k].id)
       IN /\ heap' = Collect(r.heap, r.menuItems, alerts)
          /\ menuItems' = r.menuItems
          /\ last' = [op |-> "delete", id |-> Items[k].id, args |-> <<>>,
                      found |-> TRUE,
                      again |-> (last.op = "delete" /\ last.id = Items[k].id),
                      ret |-> r.ret]
  /\ UNCHANGED <<currentScreen, selectedCourse, alerts, presented, now, issued>>

\* HomeScreen.handleDelete from the delete button of the k-th card: asks for
\* confirmation; the Delete button holds this render's onDeleteItem.
HomeScreen_handleDelete ==
  /\ currentScreen = "home"
  /\ Interactive
  /\ BagCardinality(alerts) < MaxAlerts
  /\ \E k \in 1..Len(Items) :
       alerts' = alerts (+) SetToBag({Alert("delete", Items[k].id, menuItems)})
  /\ UNCHANGED <<currentScreen, heap, menuItems, selectedCourse, presented, now, issued>>
  /\ last' = NoCall

\* FilterScreen.handleDelete: the cards shown are the filtered items.
FilterScreen_handleDelete ==
  /\ currentScreen = "filter"
  /\ Interactive
  /\ BagCardinality(alerts) < MaxAlerts
  /\ LET filteredItems == filterMenuItems(Items, selectedCourse)
     IN \E k \in 1..Len(filteredItems) :
          alerts' = alerts (+) SetToBag({Alert("delete", filteredItems[k].id, menuItems)})
  /\ UNCHANGED <<currentScreen, heap, menuItems, selectedCourse, presented, now, issued>>
  /\ last' = NoCall

\* Alert.alert returns at once; the native side then puts the requested
\* dialogs on screen, and from then on only their buttons take presses.
PresentAlerts ==
  /\ alerts # EmptyBag
  /\ ~presented
  /\ presented' = TRUE
  /\ UNCHANGED <<currentScreen, heap, menuItems, selectedCourse, alerts, now, last, issued>>

\* A pressed button closes its dialog; the last one closed frees the screen.
Dismiss(d) ==
  /\ alerts' = alerts (-) SetToBag({d})
  /\ presented' = (BagCardinality(alerts) > 1)

\* The Delete button of a confirmation: () => onDeleteItem(id).
AlertDelete ==
  /\ presented
  /\ \E d \in BagToSet(alerts) :
       /\ d.kind = "delete"
       /\ Dismiss(d)
       /\ LET r == deleteMenuItem(heap, d.closure, d.id)
          IN /\ heap' = Collect(r.heap, r.menuItems, alerts')
             /\ menuItems' = r.menuItems
             /\ last' = [op |-> "delete", id |-> d.id, args |-> <<>>,
                         found |-> HasId(Items, d.id),
                         again |-> (last.op = "delete" /\ last.id = d.id),
                         ret |-> r.ret]
  /\ UNCHANGED <<currentScreen, selectedCourse, now, issued>>

\* The Cancel button of a confirmation: no callback.
AlertCancel ==
  /\ presented
  /\ \E d \in BagToSet(alerts) :
       /\ d.kind = "delete"
       /\ Dismiss(d)
  /\ heap' = Collect(heap, menuItems, alerts')
  /\ UNCHANGED <<currentScreen, menuItems, selectedCourse, now, issued>>
  /\ last' = NoCall

\* The OK button: of the success dialog, onCancel (navigateToHome); of an
\* error dialog, nothing.
AlertOK ==
  /\ presented
  /\ \E d \in BagToSet(alerts) :
       /\ d.kind \in {"success", "error"}
       /\ currentScreen' = IF d.kind = "success" THEN "home" ELSE currentScreen
       /\ Dismiss(d)
  /\ UNCHANGED <<heap, menuItems, selectedCourse, now, issued>>
  /\ last' = NoCall

Next ==
  \/ Tick
  \/ ClockSetBack
  \/ handleSplashFinish
  \/ navigateToAddDish
  \/ navigateToFilter
  \/ navigateToHome
  \/ setSelectedCourse
  \/ \E f \in FormInputs : handleAddDish(f)
  \/ HomeScreen_handleDelete
  \/ FilterScreen_handleDelete
  \/ PresentAlerts
  \/ AlertDelete
  \/ AlertCancel
  \/ AlertOK

Spec == Init /\ [][Next]_vars

\* The app with a timer that does fire: a timeout set with setTimeout is run
\* by the event loop once its delay has passed, and nothing re-renders App
\* (which would restart the effect) while the splash screen is shown.
LiveSpec == Init /\ [][Next]_vars /\ WF_vars(handleSplashFinish)

\* ------------------------------------------------- the store called directly
\* The store's two handlers as the current render of App hands them out, called
\* with arguments of the caller's choice: the store validates nothing, and an
\* id need not belong to any item.
StoreArgs ==
  {<<f.dishName, f.description, f.selectedCourse, ParseFloat(f.price).val,
     IF Trim(f.imageUrl) = <<>> THEN undefined ELSE <<Trim(f.imageUrl)>> >> : f \in FormInputs}

StoreIds ==
  {INITIAL_DISHES[k].id : k \in 1..Len(INITIAL_DISHES)}
    \cup {NumToString(t) : t \in ClockStart..MaxClock} \cup {<<"0">>}

StoreCreate ==
  /\ Len(issued) < MaxCreates
  /\ \E a \in StoreArgs :
       LET r == addMenuItem(heap, menuItems, a[1], a[2], a[3], a[4], a[5], now)
       IN /\ heap' = Collect(r.heap, r.menuItems, alerts)
          /\ menuItems' = r.menuItems
          /\ last' = [op |-> "add", id |-> NumToString(now), args |-> a,
                      found |-> HasId(Items, NumToString(now)),
                      again |-> FALSE, ret |-> r.ret]
          /\ issued' = Append(issued, NumToString(now))
  /\ UNCHANGED <<currentScreen, selectedCourse, alerts, presented, now>>

StoreDelete ==
  /\ \E id \in StoreIds :
       LET r == deleteMenuItem(heap, menuItems, id)
       IN /\ heap' = Collect(r.heap, r.menuItems, alerts)
          /\ menuItems' = r.menuItems
          /\ last' = [op |-> "delete", id |-> id, args |-> <<>>,
                      found |-> HasId(Items, id),
                      again |-> (last.op = "delete" /\ last.id = id), ret |-> r.ret]
  /\ UNCHANGED <<currentScreen, selectedCourse, alerts, presented, now, issued>>

StoreNext ==
  \/ Tick
  \/ ClockSetBack
  \/ StoreCreate
  \/ StoreDelete

StoreSpec == Init /\ [][StoreNext]_vars

\* ------------------------------------------- the view functions called directly
\* The functions of HomeScreen and FilterScreen applied to an array of the
\* caller's choice: they take any MenuItem[], whatever its courses.
ViewCourses == {"All", "Breakfast", "Lunch"}

ViewPrices == {50, 75, 125}

ViewQueries == {"All", "Breakfast", "Lunch", "Dinner"}

ViewItem(k, course, price) ==
  [id |-> NumToString(k), name |-> <<"Dish">>, description |-> <<"Sample">>,
   course |-> course, price |-> price, image |-> undefined]

ViewInputs ==
  UNION {{[k \in 1..n |-> ViewItem(k, f[k][1], f[k][2])] :
            f \in [1..n -> ViewCourses \X ViewPrices]} : n \in 0..MaxItems}

ViewInit ==
  /\ currentScreen = "home"
  /\ \E items \in ViewInputs \cup {INITIAL_DISHES} : heap = (1 :> items)
  /\ menuItems = 1
  /\ selectedCourse = "All"
  /\ alerts = EmptyBag
  /\ presented = FALSE
  /\ now = ClockStart
  /\ last = NoCall
  /\ issued = <<>>

\* A record of a call of a view function: its name, its course argument if it
\* has one, and the value it returned.
ViewCall(op, args, value) ==
  [op |-> op, id |-> <<>>, args |-> args, found |-> FALSE, again |-> FALSE, ret |-> <<value>>]

\* Mutant: the function reverses the array it was given, as items.reverse() does.
ItemsAfterView_reversed(items) == [k \in 1..Len(items) |-> items[Len(items) + 1 - k]]

\* The array a view function was given, after the call: the functions read
\* items.length, items[i].course and items[i].price, and assign to no element
\* and call no method of items that changes it.
ItemsAfterView(items) == items

ViewAverage ==
  /\ \E c \in ViewQueries :
       last' = ViewCall("calculateAveragePrice", <<c>>, calculateAveragePrice(Items, c))
  /\ heap' = [heap EXCEPT ![menuItems] = ItemsAfterView(Items)]
  /\ UNCHANGED <<currentScreen, menuItems, selectedCourse, alerts, presented, now, issued>>

ViewUnique ==
  /\ last' = ViewCall("getUniqueCourses", <<>>, getUniqueCourses(Items))
  /\ heap' = [heap EXCEPT ![menuItems] = ItemsAfterView(Items)]
  /\ UNCHANGED <<currentScreen, menuItems, selectedCourse, alerts, presented, now, issued>>

ViewStats ==
  /\ last' = ViewCall("calculateCourseStats", <<>>, calculateCourseStats(Items))
  /\ heap' = [heap EXCEPT ![menuItems] = ItemsAfterView(Items)]
  /\ UNCHANGED <<currentScreen, menuItems, selectedCourse, alerts, presented, now, issued>>

ViewFilter ==
  /\ \E c \in ViewQueries :
       last' = ViewCall("filterMenuItems", <<c>>, filterMenuItems(Items, c))
  /\ heap' = [heap EXCEPT ![menuItems] = ItemsAfterView(Items)]
  /\ UNCHANGED <<currentScreen, menuItems, selectedCourse, alerts, presented, now, issued>>

ViewCount ==
  /\ \E c \in ViewQueries :
       last' = ViewCall("countItemsInCourse", <<c>>, countItemsInCourse(Items, c))
  /\ heap' = [heap EXCEPT ![menuItems] = ItemsAfterView(Items)]
  /\ UNCHANGED <<currentScreen, menuItems, selectedCourse, alerts, presented, now, issued>>

ViewBadge ==
  /\ \E c \in ViewQueries :
       last' = ViewCall("itemCount", <<c>>, itemCount(Items, c))
  /\ heap' = [heap EXCEPT ![menuItems] = ItemsAfterView(Items)]
  /\ UNCHANGED <<currentScreen, menuItems, selectedCourse, alerts, presented, now, issued>>

ViewNext ==
  \/ ViewAverage
  \/ ViewUnique
  \/ ViewStats
  \/ ViewFilter
  \/ ViewCount
  \/ ViewBadge

ViewSpec == ViewInit /\ [][ViewNext]_vars

\* ------------------------------------------------------------ claim helpers
\* The step is a store call: every call hands the state hook a new array.
StoreCall == menuItems' # menuItems

\* a is b with zero or more elements left out.
RECURSIVE IsSubseq(_, _)
IsSubseq(a, b) ==
  IF a = <<>> THEN TRUE
  ELSE IF b = <<>> THEN FALSE
  ELSE IF Head(a) = Head(b) THEN IsSubseq(Tail(a), Tail(b))
  ELSE IsSubseq(a, Tail(b))

\* The item a create call with the recorded arguments makes.
ItemOf(c) == [id |-> c.id, name |-> c.args[1], description |-> c.args[2],
              course |-> c.args[3], price |-> c.args[4], image |-> c.args[5]]

\* ------------------------------------------------------------------ claims
\* C1: every id assigned by create is distinct from every other id create has
\* assigned on this store, also for back-to-back creates and across deletes.
C1_CreatedIdsDistinct ==
  \A i, j \in 1..Len(issued) : i # j => issued[i] # issued[j]

\* C2: in every reachable state no two items of the catalog share an id.
C2_CatalogIdsUnique ==
  \A i, j \in 1..Len(Items) : i # j => Items[i].id # Items[j].id

\* C3: create on a catalog whose list is L leaves L with the new item appended:
\* every earlier item at its position, the new item last with the passed fields.
C3_CreateAppends ==
  [][(StoreCall /\ last'.op = "add") =>
       /\ Len(Items') = Len(Items) + 1
       /\ \A k \in 1..Len(Items) : Items'[k] = Items[k]
       /\ Last(Items').name = last'.args[1]
       /\ Last(Items').description = last'.args[2]
       /\ Last(Items').course = last'.args[3]
       /\ Last(Items').price = last'.args[4]
       /\ Last(Items').image = last'.args[5]]_vars

C3_Witness ==
  /\ last.op = "add"
  /\ Len(Items) = Len(INITIAL_DISHES) + 1
  /\ Last(Items).image # undefined

\* C4: after delete(id) the list holds no item with that id, and the other
\* items of the list before the call are still there in the same relative order.
C4_DeleteRemovesOnlyThat ==
  [][(StoreCall /\ last'.op = "delete") =>
       /\ \A k \in 1..Len(Items') : Items'[k].id # last'.id
       /\ IsSubseq(SelectSeq(Items, LAMBDA x : x.id # last'.id), Items')]_vars

C4_Witness ==
  /\ last.op = "delete"
  /\ last.found
  /\ Len(Items) >= 2

\* C5: an item leaves the catalog only through a delete with its id: every item
\* of the catalog is in the catalog after any step, unchanged, unless the step
\* is a delete with that item's id.
C5_OnlyDeleteRemoves ==
  [][\A k \in 1..Len(Items) :
       \/ Items[k] \in Range(Items')
       \/ (StoreCall /\ last'.op = "delete" /\ last'.id = Items[k].id)]_vars

C5_Witness ==
  /\ last.op = "delete"
  /\ last.found
  /\ \E k \in 1..Len(Items) : Items[k].id \in Range(issued)

C7_DeleteAbsentIsNoOp ==
  [][(StoreCall /\ last'.op = "delete" /\ ~HasId(Items, last'.id)) => Items' = Items]_vars

C7_Witness ==
  /\ last.op = "delete"
  /\ ~last.found
  /\ Items = <<>>

C10_SnapshotsUnaffected ==
  [][\A r \in (DOMAIN heap) \cap (DOMAIN heap') : heap'[r] = heap[r]]_vars

C10_Witness ==
  /\ last.op \in {"add", "delete"}
  /\ heap[1] = INITIAL_DISHES
  /\ \E d \in BagToSet(alerts) :
       /\ d.kind = "delete"
       /\ d.closure # menuItems
       /\ heap[d.closure] # Items

\* C11: until the first create or delete, that is while the state hook holds
\* the array it was constructed with, the catalog is the three seed items in
\* the order given: Breakfast (id '2', 85), Lunch (id '1', 75), Dinner
\* (id '3', 225), which is not the order of their ids.
C11_InitialIsSeedInOrder ==
  menuItems = 1 =>
    /\ Len(Items) = 3
    /\ [k \in 1..3 |-> Items[k].id] = << <<"2">>, <<"1">>, <<"3">> >>
    /\ [k \in 1..3 |-> Items[k].course] = <<"Breakfast", "Lunch", "Dinner">>
    /\ [k \in 1..3 |-> Items[k].price] = <<85, 75, 225>>
    /\ Items = INITIAL_DISHES

C11_Witness ==
  /\ currentScreen = "home"
  /\ menuItems = 1
  /\ issued = <<>>
  /\ Items[1].id = <<"2">>

\* C12: from the three seed items, a create of ("Soup", "Tomato soup",
\* "Lunch", 45) leaves a list in which the count of course "Lunch" is 2 and
\* the average price of course "Lunch" is 60.
C12_SoupScenario ==
  [][(/\ menuItems = 1
      /\ StoreCall
      /\ last'.op = "add"
      /\ last'.args[1] = <<"Soup">>
      /\ last'.args[2] = <<"Tomato", " ", "soup">>
      /\ last'.args[3] = "Lunch"
      /\ last'.args[4] = 45) =>
       /\ countItemsInCourse(Items', "Lunch") = 2
       /\ calculateAveragePrice(Items', "Lunch") = [num |-> 60, den |-> 1]]_vars

C12_Witness ==
  /\ last.op = "add"
  /\ last.args[1] = <<"Soup">>
  /\ last.args[4] = 45
  /\ Len(Items) = 4
  /\ SubSeq(Items, 1, 3) = INITIAL_DISHES
  /\ countItemsInCourse(Items, "Lunch") = 2
  /\ calculateAveragePrice(Items, "Lunch") = [num |-> 60, den |-> 1]

\* The positions of the items of course c, and the sum of the prices at a set
\* of positions.
InCourse(items, c) == {k \in 1..Len(items) : items[k].course = c}

RECURSIVE SumPrices(_, _)
SumPrices(items, S) ==
  IF S = {} THEN 0
  ELSE LET k == CHOOSE x \in S : TRUE
       IN items[k].price + SumPrices(items, S \ {k})

\* C13: the average price of a course that no item has is the number 0, for an
\* empty array too.
C13_AverageOfNoneIsZero ==
  (last.op = "calculateAveragePrice" /\ InCourse(Items, last.args[1]) = {}) =>
    last.ret = << [num |-> 0, den |-> 1] >>

C13_Witness ==
  /\ last.op = "calculateAveragePrice"
  /\ Items # <<>>
  /\ InCourse(Items, last.args[1]) = {}
  /\ last.ret = << [num |-> 0, den |-> 1] >>

\* C14: the average price of a course that some item has is the sum of the
\* prices of the items of that course divided by their number; items of other
\* courses do not count.
C14_AverageIsMean ==
  (last.op = "calculateAveragePrice" /\ InCourse(Items, last.args[1]) # {}) =>
    LET S == InCourse(Items, last.args[1])
        avg == last.ret[1]
    IN /\ avg.den > 0
       /\ avg.num * Cardinality(S) = avg.den * SumPrices(Items, S)

C14_Witness ==
  /\ last.op = "calculateAveragePrice"
  /\ last.args = <<"Lunch">>
  /\ {Items[k].price : k \in InCourse(Items, "Lunch")} = {75, 125}
  /\ Cardinality(InCourse(Items, "Lunch")) = 2
  /\ Len(Items) = 3
  /\ last.ret = << [num |-> 100, den |-> 1] >>

\* The courses that appear on the items, and the position at which a course
\* appears first.
CoursesOf(items) == {items[k].course : k \in 1..Len(items)}

FirstIndex(items, c) == CHOOSE k \in InCourse(items, c) : \A j \in InCourse(items, c) : k <= j

\* C15: the unique courses are the courses that appear on at least one item,
\* each listed once, and nothing else.
C15_UniqueCoursesExact ==
  last.op = "getUniqueCourses" =>
    LET u == last.ret[1]
    IN /\ Range(u) = CoursesOf(Items)
       /\ \A i, j \in 1..Len(u) : u[i] = u[j] => i = j

C15_Witness ==
  /\ last.op = "getUniqueCourses"
  /\ [k \in 1..Len(Items) |-> Items[k].course] = <<"Breakfast", "Lunch", "Breakfast">>
  /\ Len(last.ret[1]) = 2
  /\ Range(last.ret[1]) = {"Breakfast", "Lunch"}

\* C16: the course statistics have one entry for each course that appears on
\* the items, and the entries come in the order in which the courses first
\* appear in the array.
C16_StatsInDiscoveryOrder ==
  last.op = "calculateCourseStats" =>
    LET st == last.ret[1]
    IN /\ {st[i].course : i \in 1..Len(st)} = CoursesOf(Items)
       /\ \A i, j \in 1..Len(st) : st[i].course = st[j].course => i = j
       /\ \A i, j \in 1..Len(st) :
            i < j <=> FirstIndex(Items, st[i].course) < FirstIndex(Items, st[j].course)

C16_Witness ==
  /\ last.op = "calculateCourseStats"
  /\ [k \in 1..Len(Items) |-> Items[k].course] = <<"Lunch", "Breakfast", "Lunch">>
  /\ [i \in 1..Len(last.ret[1]) |-> last.ret[1][i].course] = <<"Lunch", "Breakfast">>

\* C17: each entry of the course statistics has as count the number of items
\* of its course and as average the average price of its course; for the seed
\* array the entries are Breakfast, Lunch and Dinner, each with count 1 and
\* the price of its one item.
C17_StatsCountAndAverage ==
  last.op = "calculateCourseStats" =>
    LET st == last.ret[1]
    IN /\ \A i \in 1..Len(st) :
            /\ st[i].count = Cardinality(InCourse(Items, st[i].course))
            /\ st[i].average = calculateAveragePrice(Items, st[i].course)
            /\ st[i].average.num * st[i].count
                 = st[i].average.den * SumPrices(Items, InCourse(Items, st[i].course))
       /\ [k \in 1..Len(Items) |-> <<Items[k].course, Items[k].price>>]
            = << <<"Breakfast", 85>>, <<"Lunch", 75>>, <<"Dinner", 225>> >>
          => st = << [course |-> "Breakfast", count |-> 1, average |-> [num |-> 85, den |-> 1]],
                     [course |-> "Lunch", count |-> 1, average |-> [num |-> 75, den |-> 1]],
                     [course |-> "Dinner", count |-> 1, average |-> [num |-> 225, den |-> 1]] >>

C17_Witness ==
  /\ last.op = "calculateCourseStats"
  /\ Items = INITIAL_DISHES
  /\ Len(last.ret[1]) = 3
  /\ \A i \in 1..3 : last.ret[1][i].count = 1

\* C18: filtering by "All" returns the items given, all of them in their
\* order, also when an item's own course is "All".
C18_FilterAllIsIdentity ==
  (last.op = "filterMenuItems" /\ last.args = <<"All">>) => last.ret = <<Items>>

C18_Witness ==
  /\ last.op = "filterMenuItems"
  /\ last.args = <<"All">>
  /\ InCourse(Items, "All") # {}
  /\ InCourse(Items, "Lunch") # {}
  /\ last.ret = <<Items>>

\* C19: filtering by a selector other than "All" returns the items of that
\* course, each once, in the order they have in the array; the empty sequence
\* when there is none.
C19_FilterSelectsCourse ==
  (last.op = "filterMenuItems" /\ last.args # <<"All">>) =>
    /\ last.ret[1] = SelectSeq(Items, LAMBDA item : item.course = last.args[1])
    /\ InCourse(Items, last.args[1]) = {} => last.ret[1] = <<>>

C19_Witness ==
  /\ last.op = "filterMenuItems"
  /\ last.args = <<"Lunch">>
  /\ Len(Items) = 3
  /\ InCourse(Items, "Lunch") = {1, 3}
  /\ last.ret[1] = <<Items[1], Items[3]>>

\* C20: the count of a course is the number of items of that course; it is 0
\* when no item has it and when the array is empty.
C20_CountIsNumberInCourse ==
  last.op = "countItemsInCourse" =>
    /\ last.ret[1] = Cardinality(InCourse(Items, last.args[1]))
    /\ InCourse(Items, last.args[1]) = {} => last.ret[1] = 0

C20_Witness ==
  /\ last.op = "countItemsInCourse"
  /\ last.args = <<"Lunch">>
  /\ Len(Items) = 3
  /\ Cardinality(InCourse(Items, "Lunch")) = 2
  /\ last.ret = <<2>>

\* The names of the view functions.
ViewOps == {"calculateAveragePrice", "getUniqueCourses", "calculateCourseStats",
            "filterMenuItems", "countItemsInCourse"}

\* C21: on the empty array every view function returns its zero: no unique
\* course, no statistics, no filtered item for any selector, count 0 and
\* average 0.
C21_ViewsOfEmptyAreZero ==
  Items = <<>> =>
    /\ last.op \in {"getUniqueCourses", "calculateCourseStats", "filterMenuItems"}
         => last.ret = << <<>> >>
    /\ last.op = "countItemsInCourse" => last.ret = <<0>>
    /\ last.op = "calculateAveragePrice" => last.ret = << [num |-> 0, den |-> 1] >>

C21_Witness ==
  /\ Items = <<>>
  /\ last.op = "calculateAveragePrice"
  /\ last.ret = << [num |-> 0, den |-> 1] >>

C23_FormValidatesBeforeCreate ==
  [][/\ (StoreCall /\ last'.op = "add") =>
          /\ Trim(last'.args[1]) # <<>>
          /\ Trim(last'.args[2]) # <<>>
          /\ last'.args[4] > 0
     /\ CopiesIn(Alert("error", <<>>, 0), alerts') > CopiesIn(Alert("error", <<>>, 0), alerts) =>
          /\ menuItems' = menuItems
          /\ heap' = heap
          /\ issued' = issued
          /\ last' = NoCall]_vars

C23_Witness ==
  /\ currentScreen = "addDish"
  /\ BagIn(Alert("error", <<>>, 0), alerts)
  /\ Len(issued) = 1
  /\ Len(Items) = 4
  /\ Trim(Last(Items).name) # <<>>
  /\ Last(Items).price > 0

\* C24: once a delete of an id has been applied, the catalog has no item with
\* that id in any later state, whatever callbacks run afterwards and whenever
\* they were created.  Stated for the ids of the seed items: they are in the
\* catalog at the start and no create assigns them, so a seed id is absent
\* exactly when a delete of it has been applied, and only a callback can
\* bring it back.  Once absent, always absent.
C24_DeletedStaysDeleted ==
  [][\A id \in {INITIAL_DISHES[k].id : k \in 1..Len(INITIAL_DISHES)} :
       ~HasId(Items, id) => ~HasId(Items', id)]_vars

\* The delete confirmations among the dialogs.
DeleteAlerts(b) == {d \in BagToSet(b) : d.kind = "delete"}

\* C25: on the home and filter screens a press of a delete button only asks for
\* a confirmation, for the id of an item of the catalog, and leaves the catalog
\* as it was; a confirmation closed without a store call (Cancel) leaves it as
\* it was; and a delete reaches the store only from the Delete button of a
\* confirmation on screen, once, with the id that confirmation was opened for.
C25_DeleteOnlyAfterConfirm ==
  [][/\ BagCardinality(alerts') > BagCardinality(alerts) /\ currentScreen \in {"home", "filter"} =>
          /\ \E d \in DeleteAlerts(alerts') :
               /\ alerts' = alerts (+) SetToBag({d})
               /\ HasId(Items, d.id)
          /\ menuItems' = menuItems
          /\ Items' = Items
     /\ (BagCardinality(alerts') < BagCardinality(alerts) /\ last'.op # "delete") =>
          /\ menuItems' = menuItems
          /\ Items' = Items
     /\ (StoreCall /\ last'.op = "delete") =>
          /\ presented
          /\ \E d \in DeleteAlerts(alerts) :
               /\ d.id = last'.id
               /\ alerts' = alerts (-) SetToBag({d})
               /\ Items' = SelectSeq(heap[d.closure], LAMBDA x : x.id # d.id)]_vars

C25_Witness ==
  /\ currentScreen = "filter"
  /\ selectedCourse = "Lunch"
  /\ last.op = "delete"
  /\ last.found
  /\ alerts = EmptyBag
  /\ Len(Items) = 2
  /\ ~HasId(Items, last.id)

\* C26: no item of the catalog has the empty string as image: an item has no
\* image, or one that is not blank and has no whitespace around it; the form
\* passes a blank image field to create as undefined.
C26_ImageNeverEmptyString ==
  \A k \in 1..Len(Items) :
    \/ Items[k].image = undefined
    \/ /\ Len(Items[k].image) = 1
       /\ Items[k].image[1] # <<>>
       /\ Trim(Items[k].image[1]) = Items[k].image[1]

C26_Witness ==
  /\ Len(issued) = 2
  /\ \E i, j \in 1..Len(Items) :
       /\ Items[i].name = <<"Soup">>
       /\ Items[i].image = undefined
       /\ Items[j].name = <<" ", "Pap">>
       /\ Items[j].image = << <<"pap.jpg">> >>

\* The moves between screens.
ScreenEdges ==
  {<<"splash", "home">>, <<"home", "addDish">>, <<"home", "filter">>,
   <<"addDish", "home">>, <<"filter", "home">>}

\* C27: the current screen is one of splash, home, addDish and filter; it is
\* splash at the start; and it changes only from splash to home, from home to
\* addDish or filter, and from addDish or filter to home.
C27_ScreenTransitions ==
  /\ currentScreen = "splash"
  /\ [](currentScreen \in Screen)
  /\ [][currentScreen' # currentScreen => <<currentScreen, currentScreen'>> \in ScreenEdges]_vars

C27_Witness ==
  /\ currentScreen = "filter"
  /\ Len(issued) = 1
  /\ selectedCourse = "Dinner"

\* C28: from the splash screen the app reaches the home screen with no user
\* action, given that the timer fires; the timer's callback runs only while the
\* splash screen is shown, where it moves the app to home, so it never takes
\* the app from addDish or filter to home.
C28_SplashLeadsToHome ==
  /\ <>(currentScreen = "home")
  /\ [][(last'.op = "onFinish" /\ last.op # "onFinish") =>
          (currentScreen = "splash" /\ currentScreen' = "home")]_vars
  /\ [](currentScreen = "splash" => (alerts = EmptyBag /\ menuItems = 1 /\ last = NoCall))

C28_Witness ==
  /\ currentScreen = "home"
  /\ last.op = "onFinish"
  /\ menuItems = 1
  /\ alerts = EmptyBag

\* C29: the counting paths agree.  For a course other than "All" the count of
\* the course, and the badge of its button, equal the number of items the
\* filter returns for it and the count of its entry in the course statistics,
\* if it has one; the badge of "All" equals the number of items the filter
\* returns for "All".
C29_CountingPathsAgree ==
  /\ (last.op \in {"countItemsInCourse", "itemCount"} /\ last.args # <<"All">>) =>
       LET c == last.args[1]
           stats == calculateCourseStats(Items)
       IN /\ last.ret[1] = Len(filterMenuItems(Items, c))
          /\ \A i \in 1..Len(stats) : stats[i].course = c => stats[i].count = last.ret[1]
  /\ (last.op = "itemCount" /\ last.args = <<"All">>) =>
       last.ret[1] = Len(filterMenuItems(Items, "All"))

C29_Witness ==
  /\ last.op = "itemCount"
  /\ last.args = <<"Lunch">>
  /\ last.ret = <<2>>
  /\ Len(Items) = 3
  /\ InCourse(Items, "All") # {}
  /\ \E i \in 1..Len(calculateCourseStats(Items)) :
       /\ calculateCourseStats(Items)[i].course = "Lunch"
       /\ calculateCourseStats(Items)[i].count = 2

====
